---- MODULE Spec2Model ----
(***************************************************************************)
(* Model of um235/reject_catalog: the attribute ontology resolver          *)
(* (graph.py, db.py, ai.py) and the filter matching engine                 *)
(* (filter_stats.py, classify_to_filter.py,                                *)
(* product_classification_pipeline.py).                                    *)
(*                                                                         *)
(* Representation of Python values:                                        *)
(*  - a float of an embedding or centroid is a fixed-point integer in      *)
(*    units of 1/Scale; sums and halving of the model's vectors are exact  *)
(*    in IEEE doubles as well, and json.dumps/json.loads round-trips a     *)
(*    double, so the stored centroid is the computed one;                  *)
(*  - a cosine is kept exactly, as the fraction num / sqrt(den2);          *)
(*  - attr_id is the AUTOINCREMENT rowid: rows are never deleted, so the   *)
(*    n-th row has attr_id n and list index n - 1 (indices are 1-based     *)
(*    here, 0-based in Python).                                            *)
(***************************************************************************)
EXTENDS Integers, Sequences, FiniteSets, TLC

VARIABLES
  attr_nodes,   \* table attr_nodes (db.py:22-27), in rowid order
  emb,          \* the embedding capability: a deterministic map label -> vector
  ncalls,       \* number of ensure_attr_node calls issued so far
  last,         \* the last call made on its own (EnsureAttrNode): its input,
                \* path and result, and those of the call before it
  procs,        \* concurrent callers of ensure_attr_node (SpecConc only)
  occs,         \* table occurrences: the rows of the item being evaluated
  filters,      \* table saved_filters, in rowid order
  out           \* the last matching operation: its input and its result

vars == <<attr_nodes, emb, ncalls, last, procs, occs, filters, out>>

(***************************************************************************)
(* Bounds and configuration                                                *)
(***************************************************************************)
MaxCalls == 3

\* config.py:4  SIM_THRESHOLD_NEW_ATTR = 0.78 = 39/50
SIM_THRESHOLD_NUM == 39
SIM_THRESHOLD_DEN == 50

\* config.py:5  TOPK_ATTR = int(os.getenv("TOPK_ATTR", "8")); the model runs
\* the configuration TOPK_ATTR=2 so that the candidate list is truncated.
TOPK_ATTR == 2

RECURSIVE Pow2(_)
Pow2(n) == IF n = 0 THEN 1 ELSE 2 * Pow2(n - 1)

\* one unit of a vector component is 1/Scale: MaxCalls halvings stay exact
Scale == Pow2(MaxCalls)

Labels == {"", "sechenie", "material"}

\* values the embedding capability may return for a label (in float units)
Embeddings == {<<0, 0>>, <<1, 0>>, <<0, 1>>, <<2, 1>>}

NoReply == [kind |-> "none", best_index |-> 0]

NoOut == [op |-> "none"]

NoCall ==
  [status |-> "none", label |-> "", path |-> "none", op |-> "none", ret |-> 0,
   reply |-> NoReply, order |-> <<>>, embed_calls |-> 0, asked |-> FALSE,
   count |-> 0,
   prev_status |-> "none", prev_label |-> "", prev_path |-> "none",
   prev_ret |-> 0, prev_count |-> 0]

(***************************************************************************)
(* ai.py: embeddings and cosine                                            *)
(***************************************************************************)
Abs(x) == IF x < 0 THEN -x ELSE x

RECURSIVE Gcd(_, _)
Gcd(a, b) == IF b = 0 THEN a ELSE Gcd(b, a % b)

RECURSIVE SumSeq(_)
SumSeq(s) == IF s = <<>> THEN 0 ELSE Head(s) + SumSeq(Tail(s))

RECURSIVE GcdSeq(_)
GcdSeq(s) == IF s = <<>> THEN 0 ELSE Gcd(Abs(Head(s)), GcdSeq(Tail(s)))

\* np.dot(va, vb)
Dot(a, b) == SumSeq([i \in 1..Len(a) |-> a[i] * b[i]])

\* the direction of v with its common factor removed (a cosine does not
\* depend on the length of its arguments); keeps the integers small
Primitive(v) ==
  LET g == GcdSeq(v) IN IF g = 0 THEN v ELSE [i \in 1..Len(v) |-> v[i] \div g]

\* embed([label])[0], in fixed point
embed(label) == [i \in 1..Len(emb[label]) |-> Scale * emb[label][i]]

\* cosine(a, b): np.dot(va, vb) / denom if denom else 0.0, as the exact
\* fraction num / sqrt(den2)
cosine(a, b) ==
  LET pa == Primitive(a)
      pb == Primitive(b)
      den2 == Dot(pa, pa) * Dot(pb, pb)
  IN  IF den2 # 0 THEN [num |-> Dot(pa, pb), den2 |-> den2]
                  ELSE [num |-> 0, den2 |-> 1]

\* a/b < c/d for a, c >= 0 and b, d > 0, by whole parts and remainders (no
\* product is formed, so nothing overflows)
RECURSIVE FracLess(_, _, _, _)
FracLess(a, b, c, d) ==
  IF a \div b # c \div d THEN a \div b < c \div d
  ELSE IF a % b = 0 THEN c % d # 0
  ELSE IF c % d = 0 THEN FALSE
  ELSE FracLess(d, c % d, b, a % b)

\* x < y for two cosines: their signed squares compared
CosLess(x, y) ==
  IF x.num < 0 /\ y.num < 0
    THEN FracLess(y.num * y.num, y.den2, x.num * x.num, x.den2)
  ELSE IF x.num < 0 \/ y.num < 0 THEN x.num < 0
  ELSE FracLess(x.num * x.num, x.den2, y.num * y.num, y.den2)

\* mutant: the comparison written the wrong way round (best_score <= ...)
AtMostThreshold(x) ==
  \/ x.num < 0
  \/ SIM_THRESHOLD_DEN * SIM_THRESHOLD_DEN * x.num * x.num
       <= SIM_THRESHOLD_NUM * SIM_THRESHOLD_NUM * x.den2

\* mutant: the comparison made strict (best_score > ...)
AboveThreshold(x) ==
  /\ x.num > 0
  /\ SIM_THRESHOLD_DEN * SIM_THRESHOLD_DEN * x.num * x.num
       > SIM_THRESHOLD_NUM * SIM_THRESHOLD_NUM * x.den2

\* best_score >= SIM_THRESHOLD_NEW_ATTR
AtLeastThreshold(x) ==
  /\ x.num >= 0
  /\ SIM_THRESHOLD_DEN * SIM_THRESHOLD_DEN * x.num * x.num
       >= SIM_THRESHOLD_NUM * SIM_THRESHOLD_NUM * x.den2

(***************************************************************************)
(* db.py: the attr_nodes table                                             *)
(***************************************************************************)
InSeq(x, s) == \E i \in 1..Len(s) : s[i] = x

\* DB.get_attr_nodes: SELECT * FROM attr_nodes
get_attr_nodes(table) == table

\* mutant: the INSERT with an empty examples list
create_without_example(table, label, centroid, example) ==
  Append(table, [attr_id |-> Len(table) + 1, label |-> label,
                 centroid |-> centroid, examples |-> <<>>])

\* DB.create_attr_node: INSERT INTO attr_nodes(label,centroid,examples)
create_attr_node(table, label, centroid, example) ==
  Append(table, [attr_id |-> Len(table) + 1, label |-> label,
                 centroid |-> centroid, examples |-> <<example>>])

\* cur.lastrowid after the INSERT
lastrowid(table) == Len(table)

\* mutant: ex.append(new_example) without the test
append_example(table, attr_id, new_example) ==
  Append(table[attr_id].examples, new_example)

\* DB.update_attr_node, lines 73-75: SELECT the row, append the example
\* "if new_example and new_example not in ex"
update_examples(table, attr_id, new_example) ==
  LET ex == table[attr_id].examples
  IN  IF new_example # "" /\ ~InSeq(new_example, ex)
        THEN Append(ex, new_example) ELSE ex

\* mutant: the UPDATE without its WHERE clause
update_write_all(table, attr_id, new_centroid, ex) ==
  [i \in 1..Len(table) |->
     [table[i] EXCEPT !.centroid = new_centroid, !.examples = ex]]

\* DB.update_attr_node, lines 76-79: UPDATE ... WHERE attr_id=?
update_write(table, attr_id, new_centroid, ex) ==
  [table EXCEPT ![attr_id].centroid = new_centroid, ![attr_id].examples = ex]

\* DB.update_attr_node as one call
update_attr_node(table, attr_id, new_centroid, new_example) ==
  update_write(table, attr_id, new_centroid,
               update_examples(table, attr_id, new_example))

(***************************************************************************)
(* ai.py: llm_json, and the replies the chat capability may give           *)
(***************************************************************************)
\* api_error: client.chat.completions.create raises; unparseable: the content
\* is not JSON; no_key: a JSON object without "best_index"; not_int: a
\* "best_index" int() cannot convert; index: an integer "best_index"
\* (TOPK_ATTR is past the end of every candidate list)
IndexReplies == [kind : {"index"}, best_index : -2..TOPK_ATTR]
OtherReplies == [kind : {"api_error", "unparseable", "no_key", "not_int"},
                 best_index : {0}]
Replies == IndexReplies \cup OtherReplies

\* llm_json: raises when the request does; {} when json.loads fails
llm_json(reply) ==
  CASE reply.kind = "api_error"   -> [raised |-> TRUE,  has_key |-> FALSE, is_int |-> FALSE, best_index |-> 0]
    [] reply.kind = "unparseable" -> [raised |-> FALSE, has_key |-> FALSE, is_int |-> FALSE, best_index |-> 0]
    [] reply.kind = "no_key"      -> [raised |-> FALSE, has_key |-> FALSE, is_int |-> FALSE, best_index |-> 0]
    [] reply.kind = "not_int"     -> [raised |-> FALSE, has_key |-> TRUE,  is_int |-> FALSE, best_index |-> 0]
    [] OTHER                      -> [raised |-> FALSE, has_key |-> TRUE,  is_int |-> TRUE,  best_index |-> reply.best_index]

(***************************************************************************)
(* graph.py: ensure_attr_node                                              *)
(***************************************************************************)
Min(a, b) == IF a < b THEN a ELSE b

\* sims = [cosine(qv, c) for c in centroids]
RECURSIVE Sims(_, _)
Sims(rows, qv) ==
  IF rows = <<>> THEN <<>>
  ELSE <<cosine(qv, Head(rows).centroid)>> \o Sims(Tail(rows), qv)

\* int(np.argmax(np.array(sims))): the first index holding the maximum
argmax(sims) ==
  CHOOSE i \in 1..Len(sims) :
    /\ \A j \in 1..Len(sims) : ~CosLess(sims[i], sims[j])
    /\ \A j \in 1..(i - 1) : CosLess(sims[j], sims[i])

\* np.argsort(np.array(sims))[::-1]: numpy's default sort kind is not
\* stable, so equal similarities may come out in any order
ArgsortDescending(sims) ==
  {o \in [1..Len(sims) -> 1..Len(sims)] :
     /\ \A i, j \in 1..Len(sims) : i # j => o[i] # o[j]
     /\ \A i, j \in 1..Len(sims) : i < j => ~CosLess(sims[o[i]], sims[o[j]])}

\* order = ...[:min(TOPK_ATTR, len(rows))]
TopK(sorted, n) == SubSeq(sorted, 1, Min(TOPK_ATTR, n))

\* mutant: a mean that weighs the stored centroid as two labels
WeightedMean(c, qv) == [i \in 1..Len(c) |-> (2 * c[i] + qv[i]) \div 3]

\* ((np.array(centroid) + np.array(qv))/2.0).tolist()
Average(c, qv) == [i \in 1..Len(c) |-> (c[i] + qv[i]) \div 2]

NoWrite(path) ==
  [status |-> "raise", path |-> path, op |-> "none", target |-> 0,
   centroid |-> <<>>, order |-> <<>>, embed_calls |-> 1, asked |-> FALSE]

\* lines 36-47: the escalation to the arbiter
Escalate(rows, label, qv, sims, reply, sorted) ==
  LET order == TopK(sorted, Len(rows))
      j     == llm_json(reply)
      idx   == IF j.has_key THEN j.best_index ELSE -1
  IN  IF j.raised THEN [NoWrite("arbiter_error") EXCEPT !.order = order, !.asked = TRUE]
      ELSE IF j.has_key /\ ~j.is_int
        THEN [NoWrite("int_error") EXCEPT !.order = order, !.asked = TRUE]
      ELSE IF idx >= 0
        THEN IF idx + 1 > Len(order)
               THEN [NoWrite("index_error") EXCEPT !.order = order, !.asked = TRUE]
               ELSE [status |-> "ok", path |-> "arbiter_merge", op |-> "update",
                     target |-> rows[order[idx + 1]].attr_id,
                     centroid |-> Average(rows[order[idx + 1]].centroid, qv),
                     order |-> order, embed_calls |-> 1, asked |-> TRUE]
      ELSE [status |-> "ok", path |-> "arbiter_new", op |-> "create", target |-> 0,
            centroid |-> qv, order |-> order, embed_calls |-> 1, asked |-> TRUE]

\* lines 20-47 up to the write: what the call decides on the rows it read.
\* embed_ok = FALSE: client.embeddings.create raises.
Decide(rows, label, qv, sims, embed_ok, reply, sorted) ==
  IF ~embed_ok THEN NoWrite("embed_error")
  ELSE IF rows = <<>>
    THEN [status |-> "ok", path |-> "empty", op |-> "create", target |-> 0,
          centroid |-> qv, order |-> <<>>, embed_calls |-> 1,
          asked |-> FALSE]
  ELSE IF AtLeastThreshold(sims[argmax(sims)])
    THEN [status |-> "ok", path |-> "threshold", op |-> "update",
          target |-> rows[argmax(sims)].attr_id,
          centroid |-> Average(rows[argmax(sims)].centroid, qv),
          order |-> <<>>, embed_calls |-> 1, asked |-> FALSE]
  ELSE Escalate(rows, label, qv, sims, reply, sorted)

\* the write the call ends with, on the table as it is then
Write(table, d, label) ==
  CASE d.op = "create" -> create_attr_node(table, label, d.centroid, label)
    [] d.op = "update" -> update_attr_node(table, d.target, d.centroid, label)
    [] OTHER           -> table

\* the value the call returns
Returned(table, d) ==
  CASE d.op = "create" -> lastrowid(table)
    [] d.op = "update" -> d.target
    [] OTHER           -> 0

\* whether the call, on these rows, reaches line 39 and asks the arbiter
Escalates(rows, sims, embed_ok) ==
  embed_ok /\ rows # <<>> /\ ~AtLeastThreshold(sims[argmax(sims)])

\* the arbiter's possible replies and the sort's possible results, where the
\* call gets that far
ArbiterInputs(rows, sims, embed_ok) ==
  IF Escalates(rows, sims, embed_ok)
    THEN Replies \X ArgsortDescending(sims)
    ELSE {<<NoReply, <<>> >>}

CallRecord(d, label, reply, after) ==
  [status |-> d.status, label |-> label, path |-> d.path, op |-> d.op,
   ret |-> Returned(after, d), reply |-> reply, order |-> d.order,
   embed_calls |-> d.embed_calls, asked |-> d.asked, count |-> Len(after),
   prev_status |-> last.status, prev_label |-> last.label,
   prev_path |-> last.path, prev_ret |-> last.ret, prev_count |-> last.count]

\* no concurrent caller has started (the store is seeded by calls run alone)
Quiet == \A p \in DOMAIN procs : procs[p].pc = "idle"

\* ensure_attr_node(db, label), run alone from its first line to its return
EnsureAttrNode(label, embed_ok) ==
  /\ ncalls < MaxCalls
  /\ Quiet
  /\ \E rows \in {get_attr_nodes(attr_nodes)}, qv \in {embed(label)} :
       \E sims \in {Sims(rows, qv)} :
         \E in \in ArbiterInputs(rows, sims, embed_ok) :
           \E d \in {Decide(rows, label, qv, sims, embed_ok, in[1], in[2])} :
             \E after \in {Write(attr_nodes, d, label)} :
               /\ attr_nodes' = after
               /\ last' = CallRecord(d, label, in[1], after)
  /\ ncalls' = ncalls + 1
  /\ UNCHANGED <<emb, procs, occs, filters, out>>

Init ==
  /\ attr_nodes = <<>>
  /\ emb \in [Labels -> Embeddings]
  /\ ncalls = 0
  /\ last = NoCall
  /\ procs = <<>>
  /\ occs = <<>>
  /\ filters = <<>>
  /\ out = NoOut

Next ==
  \E label \in Labels, embed_ok \in BOOLEAN : EnsureAttrNode(label, embed_ok)

Spec == Init /\ [][Next]_vars

(***************************************************************************)
(* The same calls over embeddings of three components, among them two      *)
(* whose cosine is the threshold itself:                                   *)
(* (3,4,5).(0,1,7) = 39 and |(3,4,5)| |(0,1,7)| = 50, so the cosine is     *)
(* 0.78; (3,4,5) and (0,1,8) have cosine 44 / sqrt(3250) = 0.7718.         *)
(***************************************************************************)
BoundaryEmbeddings == {<<3, 4, 5>>, <<0, 1, 7>>, <<0, 1, 8>>}

InitBoundary ==
  /\ attr_nodes = <<>>
  /\ emb \in [Labels -> BoundaryEmbeddings]
  /\ ncalls = 0
  /\ last = NoCall
  /\ procs = <<>>
  /\ occs = <<>>
  /\ filters = <<>>
  /\ out = NoOut

SpecBoundary == InitBoundary /\ [][Next]_vars

(***************************************************************************)
(* Concurrent callers: two processes (ingest_extract.py and                *)
(* classify_to_filter.py both call ensure_attr_node, each on its own       *)
(* connection to the same database file). Every SQL statement is atomic;   *)
(* nothing in graph.py or db.py holds a lock or a transaction across the   *)
(* statements of one call.                                                 *)
(***************************************************************************)
Procs == {1, 2}

IdleProc ==
  [pc |-> "idle", label |-> "", d |-> NoWrite("none"), ex |-> <<>>, ret |-> 0]

\* graph.py:21-45 up to the write: SELECT the rows, embed, decide
Begin(p, label, embed_ok) ==
  /\ procs[p].pc = "idle"
  /\ ncalls < MaxCalls
  /\ \E rows \in {get_attr_nodes(attr_nodes)}, qv \in {embed(label)} :
       \E sims \in {Sims(rows, qv)} :
         \E in \in ArbiterInputs(rows, sims, embed_ok) :
           \E d \in {Decide(rows, label, qv, sims, embed_ok, in[1], in[2])} :
             procs' = [procs EXCEPT ![p] =
                         [pc |-> CASE d.op = "create" -> "create"
                                   [] d.op = "update" -> "select"
                                   [] OTHER -> "done",
                          label |-> label, d |-> d, ex |-> <<>>, ret |-> 0]]
  /\ ncalls' = ncalls + 1
  /\ UNCHANGED <<attr_nodes, emb, last, occs, filters, out>>

\* graph.py:24 / graph.py:47: db.create_attr_node
DoCreate(p) ==
  /\ procs[p].pc = "create"
  /\ attr_nodes' = create_attr_node(attr_nodes, procs[p].label,
                                    procs[p].d.centroid, procs[p].label)
  /\ procs' = [procs EXCEPT ![p].pc = "done",
                            ![p].ret = lastrowid(attr_nodes')]
  /\ UNCHANGED <<emb, ncalls, last, occs, filters, out>>

\* db.py:73-75: update_attr_node reads the row's examples
UpdateSelect(p) ==
  /\ procs[p].pc = "select"
  /\ procs' = [procs EXCEPT ![p].pc = "write",
                 ![p].ex = update_examples(attr_nodes, procs[p].d.target,
                                           procs[p].label)]
  /\ UNCHANGED <<attr_nodes, emb, ncalls, last, occs, filters, out>>

\* db.py:76-79: update_attr_node writes centroid and examples
UpdateWrite(p) ==
  /\ procs[p].pc = "write"
  /\ attr_nodes' = update_write(attr_nodes, procs[p].d.target,
                                procs[p].d.centroid, procs[p].ex)
  /\ procs' = [procs EXCEPT ![p].pc = "done", ![p].ret = procs[p].d.target]
  /\ UNCHANGED <<emb, ncalls, last, occs, filters, out>>

InitConc ==
  /\ attr_nodes = <<>>
  /\ emb \in [Labels -> Embeddings]
  /\ ncalls = 0
  /\ last = NoCall
  /\ procs = [p \in Procs |-> IdleProc]
  /\ occs = <<>>
  /\ filters = <<>>
  /\ out = NoOut

NextConc ==
  \/ \E label \in Labels, embed_ok \in BOOLEAN : EnsureAttrNode(label, embed_ok)
  \/ \E p \in Procs, label \in Labels, embed_ok \in BOOLEAN :
       Begin(p, label, embed_ok)
  \/ \E p \in Procs : DoCreate(p)
  \/ \E p \in Procs : UpdateSelect(p)
  \/ \E p \in Procs : UpdateWrite(p)

SpecConc == InitConc /\ [][NextConc]_vars

(***************************************************************************)
(* Python values of the matching engine                                    *)
(*  - a str is a sequence of one-character strings;                        *)
(*  - a float is a fixed-point integer in units of 1/NumScale;             *)
(*  - None is the empty sequence and a present value x is <<x>>            *)
(*    (unit_text, number_value, a clause's unit);                          *)
(*  - a clause value (JSON) is a record tagged t: "int" (n), "float" (x),  *)
(*    "str" (s), "list" (items, of int/float/str) or "dict" (gte, lte).    *)
(***************************************************************************)
NumScale == 10000000

None == <<>>
Some(x) == <<x>>

UpperCase == <<"A", "B", "C", "D", "E", "F", "G", "H", "I", "J", "K", "L", "M",
               "N", "O", "P", "Q", "R", "S", "T", "U", "V", "W", "X", "Y", "Z">>
LowerCase == <<"a", "b", "c", "d", "e", "f", "g", "h", "i", "j", "k", "l", "m",
               "n", "o", "p", "q", "r", "s", "t", "u", "v", "w", "x", "y", "z">>
DigitChars == <<"0", "1", "2", "3", "4", "5", "6", "7", "8", "9">>

\* str.lower(), character by character
LowerOf ==
  [c \in {UpperCase[i] : i \in 1..Len(UpperCase)} |->
     LowerCase[CHOOSE i \in 1..Len(UpperCase) : UpperCase[i] = c]]
LowerChar(c) == IF c \in DOMAIN LowerOf THEN LowerOf[c] ELSE c
Lower(s) == [i \in 1..Len(s) |-> LowerChar(s[i])]

\* t in s, for two str
Contains(s, t) ==
  \E i \in 0..(Len(s) - Len(t)) : SubSeq(s, i + 1, i + Len(t)) = t

IsDigit(c) == \E i \in 1..Len(DigitChars) : DigitChars[i] = c
DigitValue(c) == (CHOOSE i \in 1..Len(DigitChars) : DigitChars[i] = c) - 1

\* str.isdigit()
IsDigitStr(s) == s # <<>> /\ \A i \in 1..Len(s) : IsDigit(s[i])

\* the index of the first "." of s, or 0
FirstDot(s) ==
  IF \E i \in 1..Len(s) : s[i] = "."
    THEN CHOOSE i \in 1..Len(s) : s[i] = "." /\ \A j \in 1..(i - 1) : s[j] # "."
    ELSE 0

\* s.replace('.', '', 1)
RemoveFirstDot(s) ==
  IF FirstDot(s) = 0 THEN s
  ELSE SubSeq(s, 1, FirstDot(s) - 1) \o SubSeq(s, FirstDot(s) + 1, Len(s))

\* float(s) succeeds: over the model's characters (letters, digits, ".",
\* no sign, exponent or blank) a str is a float literal exactly when it is
\* digits with at most one "."
FloatParses(s) == IsDigitStr(RemoveFirstDot(s))

RECURSIVE DigitsValue(_)
DigitsValue(s) ==
  IF s = <<>> THEN 0
  ELSE 10 * DigitsValue(SubSeq(s, 1, Len(s) - 1)) + DigitValue(s[Len(s)])

RECURSIVE Pow10(_)
Pow10(n) == IF n = 0 THEN 1 ELSE 10 * Pow10(n - 1)

\* float(s) for a str that parses (at most 7 fractional digits in the model)
ParseFloat(s) ==
  LET dot  == FirstDot(s)
      int  == IF dot = 0 THEN s ELSE SubSeq(s, 1, dot - 1)
      frac == IF dot = 0 THEN <<>> ELSE SubSeq(s, dot + 1, Len(s))
  IN  DigitsValue(int) * NumScale
        + DigitsValue(frac) * (NumScale \div Pow10(Len(frac)))

\* str(n) for an int n >= 0
RECURSIVE IntToStr(_)
IntToStr(n) ==
  IF n < 10 THEN <<DigitChars[n + 1]>>
  ELSE IntToStr(n \div 10) \o <<DigitChars[(n % 10) + 1]>>

\* the fractional digits of a float, shortest form, at least one digit
RECURSIVE FracDigits(_, _)
FracDigits(f, unit) ==
  IF unit = 1 \/ f % unit = 0 THEN <<DigitChars[(f \div unit) + 1]>>
  ELSE <<DigitChars[(f \div unit) + 1]>> \o FracDigits(f % unit, unit \div 10)

\* str(x) for a float x >= 0 (repr: "2.5", "2.0")
FloatToStr(x) ==
  IntToStr(x \div NumScale) \o <<".">>
    \o FracDigits(x % NumScale, NumScale \div 10)

IsNumber(v) == v.t \in {"int", "float"}

\* float(v) for an int or a float
NumberValue(v) == IF v.t = "int" THEN v.n * NumScale ELSE v.x

\* str(v) for a JSON scalar; repr(v) inside a list or a dict
StrScalar(v) ==
  CASE v.t = "int" -> IntToStr(v.n)
    [] v.t = "float" -> FloatToStr(v.x)
    [] OTHER -> v.s
ReprScalar(v) == IF v.t = "str" THEN <<"'">> \o v.s \o <<"'">> ELSE StrScalar(v)

RECURSIVE JoinRepr(_)
JoinRepr(items) ==
  IF items = <<>> THEN <<>>
  ELSE IF Len(items) = 1 THEN ReprScalar(items[1])
  ELSE ReprScalar(items[1]) \o <<",", " ">> \o JoinRepr(Tail(items))

\* str(val)
Str(v) ==
  CASE v.t = "list" -> <<"[">> \o JoinRepr(v.items) \o <<"]">>
    [] v.t = "dict" ->
         <<"{", "'", "g", "t", "e", "'", ":", " ">> \o ReprScalar(v.gte)
           \o <<",", " ", "'", "l", "t", "e", "'", ":", " ">>
           \o ReprScalar(v.lte) \o <<"}">>
    [] OTHER -> StrScalar(v)

\* float(v) raises: ValueError for a str that is no float literal,
\* TypeError for a list or a dict
FloatRaises(v) ==
  CASE v.t \in {"int", "float"} -> FALSE
    [] v.t = "str" -> ~FloatParses(v.s)
    [] OTHER -> TRUE

\* float(v) where it does not raise
Float(v) == IF v.t = "str" THEN ParseFloat(v.s) ELSE NumberValue(v)

\* truthiness of an optional str: neither None nor ""
Truthy(u) == u # None /\ u[1] # <<>>

(***************************************************************************)
(* ai.py: convert_value. cv is what the conversion request does when it is *)
(* made: "api_error" (the request raises), "not_ok" (ok false, no value,   *)
(* or unparseable content) or "d1000" (ok, with the value divided by 1000, *)
(* as for mm -> m).                                                        *)
(***************************************************************************)
ConvReplies == {"api_error", "not_ok", "d1000"}

\* convert_value returns without a request
NoConversion(from_unit, to_unit) ==
  \/ ~Truthy(to_unit)
  \/ ~Truthy(from_unit)
  \/ Lower(from_unit[1]) = Lower(to_unit[1])

ConvertRaises(from_unit, to_unit, cv) ==
  ~NoConversion(from_unit, to_unit) /\ cv = "api_error"

convert_value(value, from_unit, to_unit, cv) ==
  IF NoConversion(from_unit, to_unit) \/ cv # "d1000" THEN value
  ELSE value \div 1000

(***************************************************************************)
(* filter_stats.py: match_pred. The result is "True", "False" or "Raise"   *)
(* (an exception leaves the function). A clause is                         *)
(* [attr, op, value, unit]; an occurrence row is                           *)
(* [name_text, value_text, unit_text, number_value].                       *)
(***************************************************************************)
Ops == {"eq", "neq", "in", "gte", "lte", "range", "contains"}

\* 1e-6 (line 24)
Tolerance == NumScale \div 1000000

\* line 15: cands = [o for o in occs if o['name_text'].lower()==attr.lower()]
Candidates(rows, attr) ==
  SelectSeq(rows, LAMBDA o : Lower(o.name_text) = Lower(attr))

\* mutant: "if not cands: return False" for every operator
AbsentAlwaysFalse(op) == "False"

\* line 16: the result when there is no candidate
AbsentResult(op) ==
  IF op \in {"eq", "gte", "lte", "range", "contains"} THEN "False" ELSE "True"

\* line 22: v is a number (not None)
HasComparisonValue(val) ==
  IsNumber(val) \/ (val.t = "str" /\ IsDigitStr(RemoveFirstDot(val.s)))

\* line 27: float(val['gte']) <= num <= float(val['lte'])
RangeStep(num, val) ==
  IF val.t # "dict" THEN "Raise"
  ELSE IF FloatRaises(val.gte) THEN "Raise"
  ELSE IF ~(Float(val.gte) <= num) THEN "Next"
  ELSE IF FloatRaises(val.lte) THEN "Raise"
  ELSE IF num <= Float(val.lte) THEN "True" ELSE "Next"

\* lines 24-27 for one candidate's (converted) number
CompareStep(num, pred) ==
  CASE pred.op = "eq" ->
         IF HasComparisonValue(pred.value)
            /\ Abs(num - Float(pred.value)) < Tolerance THEN "True" ELSE "Next"
    [] pred.op = "gte" ->
         IF HasComparisonValue(pred.value) /\ num >= Float(pred.value)
           THEN "True" ELSE "Next"
    [] pred.op = "lte" ->
         IF HasComparisonValue(pred.value) /\ num <= Float(pred.value)
           THEN "True" ELSE "Next"
    [] OTHER -> RangeStep(num, pred.value)

\* lines 19-27: one iteration of "for o in cands"; "Next" goes on
NumericStep(o, pred, cv) ==
  IF o.number_value = None THEN "Next"
  ELSE IF pred.value.t = "str" /\ ~FloatParses(pred.value.s) THEN "Raise"
  ELSE IF Truthy(pred.unit) /\ ConvertRaises(o.unit_text, pred.unit, cv)
    THEN "Raise"
  ELSE IF Truthy(pred.unit)
    THEN CompareStep(convert_value(o.number_value[1], o.unit_text,
                                   pred.unit, cv), pred)
  ELSE CompareStep(o.number_value[1], pred)

\* lines 18-28: the loop, and "return False" after it
RECURSIVE NumericScan(_, _, _)
NumericScan(cands, pred, cv) ==
  IF cands = <<>> THEN "False"
  ELSE IF NumericStep(Head(cands), pred, cv) = "Next"
    THEN NumericScan(Tail(cands), pred, cv)
  ELSE NumericStep(Head(cands), pred, cv)

Bool(b) == IF b THEN "True" ELSE "False"

\* line 36: arr = [str(v).lower() for v in val]
InList(val) ==
  CASE val.t = "list" ->
         {Lower(StrScalar(val.items[i])) : i \in 1..Len(val.items)}
    [] val.t = "str" -> {<<LowerChar(val.s[i])>> : i \in 1..Len(val.s)}
    [] OTHER -> {<<"g", "t", "e">>, <<"l", "t", "e">>}

\* lines 29-37
TextResult(cands, pred) ==
  CASE pred.op = "contains" ->
         Bool(\E i \in 1..Len(cands) :
                Contains(Lower(cands[i].value_text), Lower(Str(pred.value))))
    [] pred.op = "eq" ->
         Bool(\E i \in 1..Len(cands) :
                Lower(Str(pred.value)) = Lower(cands[i].value_text))
    [] pred.op = "neq" ->
         Bool(\A i \in 1..Len(cands) :
                Lower(Str(pred.value)) # Lower(cands[i].value_text))
    [] pred.op = "in" ->
         IF IsNumber(pred.value) THEN "Raise"
         ELSE Bool(\E i \in 1..Len(cands) :
                     Lower(cands[i].value_text) \in InList(pred.value))
    [] OTHER -> "False"

\* match_pred(db, item_id, pred), rows = db.fetch_occ_by_item(item_id)
match_pred(rows, pred, cv) ==
  IF Candidates(rows, pred.attr) = <<>> THEN AbsentResult(pred.op)
  ELSE IF pred.op \in {"eq", "gte", "lte", "range"}
    THEN NumericScan(Candidates(rows, pred.attr), pred, cv)
  ELSE TextResult(Candidates(rows, pred.attr), pred)

(***************************************************************************)
(* Inputs of the matching engine                                           *)
(***************************************************************************)
MaxOccs == 2

sechenie == <<"s", "e", "c", "h", "e", "n", "i", "e">>
material == <<"m", "a", "t", "e", "r", "i", "a", "l">>
Material == <<"M", "a", "t", "e", "r", "i", "a", "l">>
cvet == <<"c", "v", "e", "t">>
med == <<"m", "e", "d">>
Med == <<"M", "e", "d">>
PVH == <<"P", "V", "H">>
mm2 == <<"m", "m", "2">>
metre == <<"m">>
two_and_half == <<"2", ".", "5">>

Occ(name, value, unit, number) ==
  [name_text |-> name, value_text |-> value, unit_text |-> unit,
   number_value |-> number]

\* rows the extraction may have stored for an item
OccRows ==
  { Occ(sechenie, two_and_half, Some(mm2), Some(25000000)),
    Occ(sechenie, <<"4">>, Some(<<"m", "m">>), Some(40000000)),
    Occ(material, med, None, None),
    Occ(Material, Med, None, None),
    Occ(material, PVH, None, None) }

SeqsUpTo(S, n) == UNION {[1..k -> S] : k \in 0..n}

Items == SeqsUpTo(OccRows, MaxOccs)

IntV(n) == [t |-> "int", n |-> n]
FloatV(x) == [t |-> "float", x |-> x]
StrV(s) == [t |-> "str", s |-> s]

ClauseValues ==
  { IntV(2), FloatV(25000000), StrV(med), StrV(<<"M", "E", "D">>), StrV(PVH),
    StrV(two_and_half),
    [t |-> "list", items |-> <<StrV(med), StrV(PVH)>>],
    [t |-> "list", items |-> <<IntV(2), IntV(3)>>],
    [t |-> "dict", gte |-> IntV(2), lte |-> IntV(3)] }

ClauseUnits == {None, Some(mm2), Some(metre)}

Clauses ==
  [attr : {sechenie, material, cvet}, op : Ops, value : ClauseValues,
   unit : ClauseUnits]

\* whether match_pred, on these rows, makes a conversion request
AsksConversion(rows, pred) ==
  /\ pred.op \in {"eq", "gte", "lte", "range"}
  /\ Truthy(pred.unit)
  /\ \E i \in 1..Len(rows) :
       /\ Lower(rows[i].name_text) = Lower(pred.attr)
       /\ rows[i].number_value # None
       /\ ~NoConversion(rows[i].unit_text, pred.unit)

ConvInputs(rows, preds) ==
  IF \E i \in 1..Len(preds) : AsksConversion(rows, preds[i])
    THEN ConvReplies ELSE {"not_ok"}

\* one evaluation of match_pred on the item (one per behaviour: the function
\* reads the rows and writes nothing)
MatchPred(pred) ==
  /\ out = NoOut
  /\ \E cv \in ConvInputs(occs, <<pred>>) :
       out' = [op |-> "match_pred", pred |-> pred, cv |-> cv,
               result |-> match_pred(occs, pred, cv)]
  /\ UNCHANGED <<attr_nodes, emb, ncalls, last, procs, occs, filters>>

InitMatch ==
  /\ attr_nodes = <<>>
  /\ emb = [l \in Labels |-> <<0, 0>>]
  /\ ncalls = 0
  /\ last = NoCall
  /\ procs = <<>>
  /\ occs \in Items
  /\ filters = <<>>
  /\ out = NoOut

NextPred == \E pred \in Clauses : MatchPred(pred)

SpecPred == InitMatch /\ [][NextPred]_vars

(***************************************************************************)
(* db.py: the saved_filters table. filter_id is its TEXT PRIMARY KEY; the  *)
(* rows are kept in rowid order, the order SELECT * returns them in.       *)
(* json.dumps / json.loads give back the plan they were given.             *)
(***************************************************************************)
\* DB.save_filter: INSERT OR REPLACE deletes a row with the same filter_id
\* and inserts the new row with the next rowid
save_filter(table, fid, name, plan) ==
  Append(SelectSeq(table, LAMBDA r : r.filter_id # fid),
         [filter_id |-> fid, name |-> name, plan |-> plan])

\* DB.load_filters
load_filters(table) == table

(***************************************************************************)
(* filter_stats.py: main; the plan decision, which classify_to_filter.py   *)
(* repeats. One conversion service behaviour cv holds for a whole run.     *)
(***************************************************************************)
\* mutant: the should clauses required as well
MustAndShould(plan) == plan.must \o plan.should

\* plan.get('must', [])
MustClauses(plan) == plan.must

\* plan.get('must_not', [])
MustNotClauses(plan) == plan.must_not

\* all(match_pred(db, iid, p) for p in ...): stops at the first clause that
\* is not true; an exception leaves it
RECURSIVE AllMatch(_, _, _)
AllMatch(rows, preds, cv) ==
  IF preds = <<>> THEN "True"
  ELSE IF match_pred(rows, Head(preds), cv) = "True"
    THEN AllMatch(rows, Tail(preds), cv)
  ELSE match_pred(rows, Head(preds), cv)

\* all(not match_pred(db, iid, p) for p in ...)
RECURSIVE NoneMatch(_, _, _)
NoneMatch(rows, preds, cv) ==
  IF preds = <<>> THEN "True"
  ELSE IF match_pred(rows, Head(preds), cv) = "False"
    THEN NoneMatch(rows, Tail(preds), cv)
  ELSE IF match_pred(rows, Head(preds), cv) = "True" THEN "False"
  ELSE "Raise"

\* must_ok, then must_not_ok (computed whatever must_ok is), then
\* "must_ok and must_not_ok"
PlanMatches(rows, plan, cv) ==
  IF AllMatch(rows, MustClauses(plan), cv) = "Raise" THEN "Raise"
  ELSE IF NoneMatch(rows, MustNotClauses(plan), cv) = "Raise" THEN "Raise"
  ELSE Bool(AllMatch(rows, MustClauses(plan), cv) = "True"
             /\ NoneMatch(rows, MustNotClauses(plan), cv) = "True")

Clause(attr, op, value, unit) ==
  [attr |-> attr, op |-> op, value |-> value, unit |-> unit]

Plan(must, must_not, should) ==
  [must |-> must, must_not |-> must_not, should |-> should]

\* clauses a plan (a file, or plan_from_query's reply) may hold
MustPool ==
  { Clause(sechenie, "gte", IntV(2), Some(mm2)),
    Clause(sechenie, "lte", FloatV(25000000), Some(metre)),
    Clause(sechenie, "gte", StrV(med), None),
    Clause(material, "contains", StrV(med), None),
    Clause(cvet, "neq", StrV(med), None) }

MustNotPool ==
  { Clause(material, "eq", StrV(PVH), None),
    Clause(material, "eq", StrV(med), None),
    Clause(material, "in", [t |-> "list", items |-> <<StrV(med), StrV(PVH)>>],
           None) }

ShouldPool == { Clause(cvet, "eq", StrV(med), None) }

Plans ==
  [must : SeqsUpTo(MustPool, 2), must_not : SeqsUpTo(MustNotPool, 1),
   should : SeqsUpTo(ShouldPool, 1)]

\* save_as: None, or the id the plan is saved under
SaveAs == {None, Some("a")}

\* main(query, save_as, plan) on a database holding the one item: the
\* decision of lines 59-63, then the save of lines 68-69 (an exception of
\* match_pred ends the run before it)
Main(plan, save_as) ==
  /\ out = NoOut
  /\ \E cv \in ConvInputs(occs, MustClauses(plan) \o MustNotClauses(plan)) :
       \E r \in {PlanMatches(occs, plan, cv)} :
         /\ out' = [op |-> "main", plan |-> plan, cv |-> cv,
                    status |-> IF r = "Raise" THEN "raise" ELSE "ok",
                    matched |-> (r = "True")]
         /\ filters' = IF r # "Raise" /\ save_as # None
                         THEN save_filter(filters, save_as[1], save_as[1], plan)
                         ELSE filters
  /\ UNCHANGED <<attr_nodes, emb, ncalls, last, procs, occs>>

NextPlan == \E plan \in Plans, save_as \in SaveAs : Main(plan, save_as)

SpecPlan == InitMatch /\ [][NextPlan]_vars

(***************************************************************************)
(* product_classification_pipeline.py: matches_filter, classify_products   *)
(***************************************************************************)
\* item_attrs[attr]: the rows whose name_text is attr, in order
AttrValues(rows, attr) == SelectSeq(rows, LAMBDA o : o.name_text = attr)

\* lines 147-150: range, for a list of two bounds
RangeListStep(number, value) ==
  IF ~(value.t = "list" /\ Len(value.items) = 2) THEN "Next"
  ELSE IF FloatRaises(value.items[1]) THEN "Raise"
  ELSE IF ~(number >= Float(value.items[1])) THEN "Next"
  ELSE IF FloatRaises(value.items[2]) THEN "Raise"
  ELSE IF number <= Float(value.items[2]) THEN "Found" ELSE "Next"

\* lines 140-150: the numeric branch
NumberStep(number, cond) ==
  CASE cond.op = "gte" ->
         IF FloatRaises(cond.value) THEN "Raise"
         ELSE IF number >= Float(cond.value) THEN "Found" ELSE "Next"
    [] cond.op = "lte" ->
         IF FloatRaises(cond.value) THEN "Raise"
         ELSE IF number <= Float(cond.value) THEN "Found" ELSE "Next"
    [] cond.op = "range" -> RangeListStep(number, cond.value)
    [] OTHER -> "Next"

\* lines 128-150: the if/elif chain on one value of the attribute
MustStep(o, cond) ==
  IF cond.op = "eq" /\ o.value_text = Str(cond.value) THEN "Found"
  ELSE IF cond.op = "neq" /\ o.value_text # Str(cond.value) THEN "Found"
  ELSE IF cond.op = "in" /\ Contains(o.value_text, Str(cond.value))
    THEN "Found"
  ELSE IF cond.op = "contains" /\ Contains(Str(cond.value), o.value_text)
    THEN "Found"
  ELSE IF o.number_value # None THEN NumberStep(o.number_value[1], cond)
  ELSE "Next"

\* lines 126-153: match_found after the loop over the attribute's values
RECURSIVE MustScan(_, _)
MustScan(values, cond) ==
  IF values = <<>> THEN "False"
  ELSE IF MustStep(Head(values), cond) = "Next"
    THEN MustScan(Tail(values), cond)
  ELSE IF MustStep(Head(values), cond) = "Found" THEN "True"
  ELSE "Raise"

\* lines 117-153: "False" at the first condition that fails
RECURSIVE MustLoop(_, _)
MustLoop(rows, conds) ==
  IF conds = <<>> THEN "True"
  ELSE IF AttrValues(rows, Head(conds).attr) = <<>> THEN "False"
  ELSE IF MustScan(AttrValues(rows, Head(conds).attr), Head(conds)) = "True"
    THEN MustLoop(rows, Tail(conds))
  ELSE MustScan(AttrValues(rows, Head(conds).attr), Head(conds))

\* lines 164-169: a value of the attribute that rules the item out
MustNotHit(o, cond) ==
  \/ cond.op = "eq" /\ o.value_text = Str(cond.value)
  \/ cond.op = "in" /\ Contains(o.value_text, Str(cond.value))

\* lines 156-174
MustNotLoop(rows, conds) ==
  Bool(\A i \in 1..Len(conds) :
         \A j \in 1..Len(AttrValues(rows, conds[i].attr)) :
           ~MustNotHit(AttrValues(rows, conds[i].attr)[j], conds[i]))

\* matches_filter(item, occurrences, filter_plan)
matches_filter(rows, plan) ==
  IF MustLoop(rows, plan.must) # "True" THEN MustLoop(rows, plan.must)
  ELSE MustNotLoop(rows, plan.must_not)

\* lines 84-92: matching_filters; raised when matches_filter raises
RECURSIVE MatchingFilters(_, _)
MatchingFilters(fs, rows) ==
  IF fs = <<>> THEN [raised |-> FALSE, ids |-> <<>>]
  ELSE IF matches_filter(rows, Head(fs).plan) = "Raise"
    THEN [raised |-> TRUE, ids |-> <<>>]
  ELSE IF matches_filter(rows, Head(fs).plan) = "True"
    THEN [MatchingFilters(Tail(fs), rows) EXCEPT
            !.ids = IF MatchingFilters(Tail(fs), rows).raised THEN <<>>
                    ELSE <<Head(fs).filter_id>> \o @]
  ELSE MatchingFilters(Tail(fs), rows)

\* classify_products(db) on a database holding the one item
ClassifyProducts ==
  /\ out.op # "classify_products"
  /\ \E m \in {MatchingFilters(load_filters(filters), occs)} :
       out' = [op |-> "classify_products",
               status |-> IF m.raised THEN "raise" ELSE "ok",
               matching |-> m.ids]
  /\ UNCHANGED <<attr_nodes, emb, ncalls, last, procs, occs, filters>>

\* create_filters for one definition whose query plan_from_query turned into
\* plan (lines 55-58)
CreateFilters(fid, plan) ==
  /\ out = NoOut
  /\ filters' = save_filter(filters, fid, fid, plan)
  /\ UNCHANGED <<attr_nodes, emb, ncalls, last, procs, occs, out>>

(***************************************************************************)
(* classify_to_filter.py: start                                            *)
(***************************************************************************)
Pair(name, value, unit, number) ==
  [name |-> name, value |-> value, unit |-> unit, number |-> number]

\* pairs extract_pairs may return for a title and a description
PairPool ==
  { Pair(sechenie, FloatV(25000000), Some(mm2), Some(FloatV(25000000))),
    Pair(material, StrV(med), None, None),
    Pair(material, StrV(PVH), None, None) }

PairLists == SeqsUpTo(PairPool, MaxOccs)

\* lines 31-32: the occurrence row of a pair
occ_row(p) ==
  Occ(p.name, Str(p.value), p.unit,
      IF p.number = None THEN None ELSE Some(Float(p.number[1])))

\* the label as the resolver's model writes it
LabelOf(name) ==
  CASE name = sechenie -> "sechenie"
    [] name = material -> "material"

\* what one call of ensure_attr_node may decide on the table
Decisions(table, label) ==
  UNION { { Decide(get_attr_nodes(table), label, embed(label),
                   Sims(get_attr_nodes(table), embed(label)), ok, in[1], in[2])
            : in \in ArbiterInputs(get_attr_nodes(table),
                                   Sims(get_attr_nodes(table), embed(label)),
                                   ok) }
          : ok \in BOOLEAN }

\* lines 29-30: ensure_attr_node for each pair in turn, until one raises;
\* the possible outcomes
RECURSIVE ResolveAll(_, _, _)
ResolveAll(table, names, calls) ==
  IF names = <<>>
    THEN {[status |-> "ok", table |-> table, calls |-> calls]}
  ELSE UNION
    { IF d.status = "ok"
        THEN ResolveAll(Write(table, d, LabelOf(Head(names))), Tail(names),
                        calls + 1)
        ELSE {[status |-> "raise", table |-> table, calls |-> calls + 1]}
      : d \in Decisions(table, LabelOf(Head(names))) }

\* mutant: "if s >= score"
NotWorse(s, score) == s >= score

\* mutant: only a filter that matches is ever kept
BetterAndMatching(s, score) == s > score /\ s > 0

\* line 46: if s > score
Better(s, score) == s > score

\* lines 40-48: the loop over the filters; best is None or the filter kept
RECURSIVE Loop(_, _, _, _, _)
Loop(fs, rows, cv, best, score) ==
  IF fs = <<>> THEN [status |-> "ok", best |-> best, score |-> score]
  ELSE IF PlanMatches(rows, Head(fs).plan, cv) = "Raise"
    THEN [status |-> "raise", best |-> None, score |-> -1]
  ELSE IF Better(IF PlanMatches(rows, Head(fs).plan, cv) = "True"
                   THEN 1 ELSE 0, score)
    THEN Loop(Tail(fs), rows, cv, Some(Head(fs)),
              IF PlanMatches(rows, Head(fs).plan, cv) = "True" THEN 1 ELSE 0)
  ELSE Loop(Tail(fs), rows, cv, best, score)

\* every clause of every saved plan
RECURSIVE AllClauses(_)
AllClauses(fs) ==
  IF fs = <<>> THEN <<>>
  ELSE MustClauses(Head(fs).plan) \o MustNotClauses(Head(fs).plan)
         \o AllClauses(Tail(fs))

\* start(title, desc), pairs being what extract_pairs returns: the nodes are
\* resolved, the occurrences stored, the filters loaded and tried in order.
\* Any exception is caught and logged: nothing is assigned then.
Start(pairs) ==
  /\ out = NoOut
  /\ ncalls + Len(pairs) <= MaxCalls
  /\ \E r \in ResolveAll(attr_nodes, [i \in 1..Len(pairs) |-> pairs[i].name],
                         0) :
       /\ attr_nodes' = r.table
       /\ ncalls' = ncalls + r.calls
       /\ IF r.status = "raise"
            THEN /\ occs' = occs
                 /\ out' = [op |-> "start", cv |-> "not_ok",
                            status |-> "raise", best |-> None, score |-> -1]
            ELSE \E rows \in {[i \in 1..Len(pairs) |-> occ_row(pairs[i])]} :
                   /\ occs' = rows
                   /\ \E cv \in ConvInputs(rows, AllClauses(filters)) :
                        \E res \in {Loop(load_filters(filters), rows, cv,
                                         None, -1)} :
                          out' = [op |-> "start", cv |-> cv,
                                  status |-> res.status, best |-> res.best,
                                  score |-> res.score]
  /\ UNCHANGED <<emb, last, procs, filters>>

FilterIds == {"a", "b", "c"}

EmptyPlan == Plan(<<>>, <<>>, <<>>)

\* plans the saved filters may hold
SavedPlans ==
  { EmptyPlan,
    Plan(<<Clause(sechenie, "gte", IntV(2), Some(mm2))>>,
         <<Clause(material, "eq", StrV(PVH), None)>>, <<>>),
    Plan(<<Clause(cvet, "neq", StrV(med), None)>>, <<>>, <<>>),
    Plan(<<Clause(sechenie, "gte", StrV(med), None)>>, <<>>, <<>>) }

InitClassify ==
  /\ attr_nodes = <<>>
  /\ emb = [l \in Labels |->
              CASE l = "sechenie" -> <<1, 0>>
                [] l = "material" -> <<0, 1>>
                [] OTHER -> <<0, 0>>]
  /\ ncalls = 0
  /\ last = NoCall
  /\ procs = <<>>
  /\ occs = <<>>
  /\ filters = <<>>
  /\ out = NoOut

NextClassify ==
  \/ \E fid \in FilterIds, plan \in SavedPlans : CreateFilters(fid, plan)
  \/ \E pairs \in PairLists : Start(pairs)
  \/ ClassifyProducts

SpecClassify == InitClassify /\ [][NextClassify]_vars

(***************************************************************************)
(* Properties of the resolver                                              *)
(***************************************************************************)
IsZero(v) == \A i \in 1..Len(v) : v[i] = 0

\* the last two calls both returned and had the same label
SameLabelTwice ==
  /\ last.status = "ok"
  /\ last.prev_status = "ok"
  /\ last.prev_label = last.label

\* the second call merged into the node of the first and created nothing
MergedIntoFirst ==
  /\ last.op = "update"
  /\ last.ret = last.prev_ret
  /\ last.count = last.prev_count

\* the arbiter, where the last call asked it, answered within its contract:
\* an index into the candidate list, or -1
ReplyInContract ==
  last.asked => (last.reply.kind = "index" /\ last.reply.best_index >= -1)

\* C1 as stated: for any store and label, of two calls in sequence with the
\* same label the second merges into the node the first created or merged
\* into, and the node count stays the same. (Stated for labels whose
\* embedding is not the zero vector and for arbiter replies within the
\* contract, which the claim does not exclude: it fails even there.)
C1_AnyFirstCall ==
  (SameLabelTwice /\ ~IsZero(emb[last.label]) /\ ReplyInContract)
  => MergedIntoFirst

\* C1 amended: when the first call created its node or merged by the
\* similarity threshold (it did not merge on the arbiter's word) and the
\* label's embedding is not the zero vector, a second call with the same
\* label that returns merges into the first call's node and the node count
\* stays the same.
C1_Idempotent ==
  ( /\ SameLabelTwice
    /\ last.prev_path \in {"empty", "threshold", "arbiter_new"}
    /\ ~IsZero(emb[last.label]) )
  => MergedIntoFirst

\* a node created next to another by the arbiter's -1, then the same label
\* resolved again and merged by the threshold
C1_Witness ==
  /\ SameLabelTwice
  /\ last.prev_path = "arbiter_new"
  /\ ~IsZero(emb[last.label])
  /\ last.path = "threshold"
  /\ last.ret = 2

\* C8: a node is created on the escalation path only when the arbiter
\* answered -1; a failed or unusable reply (request error, unparseable
\* content, no usable best_index) fails the call and writes nothing.
C8_FailureIsFatal ==
  /\ last.path = "arbiter_new"
       => (last.reply.kind = "index" /\ last.reply.best_index = -1)
  /\ (last.asked /\ last.reply.kind # "index")
       => (last.status = "raise" /\ last.op = "none")

\* C9: when two concurrent calls with the same label have both returned, one
\* node holds the label and both calls returned its id.
C9_OneNodePerLabel ==
  ( /\ procs # <<>>
    /\ \A p \in Procs : procs[p].pc = "done" /\ procs[p].d.status = "ok"
    /\ procs[1].label = procs[2].label )
  => /\ Cardinality({i \in 1..Len(attr_nodes) :
                       InSeq(procs[1].label, attr_nodes[i].examples)}) = 1
     /\ procs[1].ret = procs[2].ret

\* the call that just returned created one row and touched no other
CreatedOne ==
  /\ last'.op = "create"
  /\ Len(attr_nodes') = Len(attr_nodes) + 1
  /\ \A i \in 1..Len(attr_nodes) : attr_nodes'[i] = attr_nodes[i]
  /\ last'.ret = attr_nodes'[Len(attr_nodes')].attr_id
  /\ \A i \in 1..Len(attr_nodes) : attr_nodes[i].attr_id # last'.ret

\* the call that just returned rewrote centroid and examples of one row
UpdatedOne ==
  /\ last'.op = "update"
  /\ Len(attr_nodes') = Len(attr_nodes)
  /\ \E i \in 1..Len(attr_nodes) :
       /\ attr_nodes[i].attr_id = last'.ret
       /\ attr_nodes'[i].attr_id = attr_nodes[i].attr_id
       /\ attr_nodes'[i].label = attr_nodes[i].label
       /\ \A j \in 1..Len(attr_nodes) : j # i => attr_nodes'[j] = attr_nodes[j]

\* C10: a call that returns either creates one node and changes no existing
\* one, or changes one existing node (centroid, examples) and creates none;
\* it returns that node's id; no node is ever deleted.
C10_OneNodePerCall ==
  [][ /\ Len(attr_nodes') >= Len(attr_nodes)
      /\ last'.status = "ok" => (CreatedOne \/ UpdatedOne) ]_vars

\* a merge into one of several nodes
C10_Witness ==
  last.status = "ok" /\ last.op = "update" /\ Len(attr_nodes) >= 2

(***************************************************************************)
(* Properties of the matching engine                                       *)
(***************************************************************************)
\* the item has no occurrence of the clause's attribute
NoOccurrenceOf(attr) ==
  \A i \in 1..Len(occs) : Lower(occs[i].name_text) # Lower(attr)

\* the item has occurrences of the attribute, none with a number
OnlyTextOccurrencesOf(attr) ==
  /\ ~NoOccurrenceOf(attr)
  /\ \A i \in 1..Len(occs) :
       Lower(occs[i].name_text) = Lower(attr) => occs[i].number_value = None

\* C3: for eq on an attribute with matching occurrences, none of them
\* numeric, match_pred is true exactly when some matching occurrence's value
\* text equals the clause value, ignoring case.
C3_TextEquality ==
  (out.op = "match_pred" /\ out.pred.op = "eq"
     /\ OnlyTextOccurrencesOf(out.pred.attr))
  => (out.result = "True" <=>
        \E i \in 1..Len(occs) :
          /\ Lower(occs[i].name_text) = Lower(out.pred.attr)
          /\ Lower(occs[i].value_text) = Lower(Str(out.pred.value)))

\* C5: with no occurrence of the clause's attribute, match_pred is false for
\* eq, gte, lte, range and contains and true for neq and in, whatever the
\* value and the unit.
C5_AbsenceTable ==
  (out.op = "match_pred" /\ NoOccurrenceOf(out.pred.attr))
  => /\ out.pred.op \in {"eq", "gte", "lte", "range", "contains"}
          => out.result = "False"
     /\ out.pred.op \in {"neq", "in"} => out.result = "True"

\* "in" with a number for a value (not iterable), on an item that has other
\* attributes only
C5_Witness ==
  /\ out.op = "match_pred"
  /\ occs # <<>>
  /\ NoOccurrenceOf(out.pred.attr)
  /\ out.pred.op = "in"
  /\ out.pred.value = IntV(2)
  /\ out.result = "True"

(***************************************************************************)
(* Properties of the plan decision and of the classifiers                  *)
(***************************************************************************)
\* the item of the example: ("sechenie", "2.5", "mm2", 2.5) and
\* ("material", "med", no unit, no number)
ExampleOccs ==
  << Occ(sechenie, two_and_half, Some(mm2), Some(25000000)),
     Occ(material, med, None, None) >>

\* C2: on the example item the plan must=[sechenie gte 2 unit mm2],
\* must_not=[material eq "PVH"] matches, and the same plan with
\* must_not=[material eq "med"] does not.
C2_PlanCombination ==
  ( /\ out.op = "main"
    /\ occs = ExampleOccs
    /\ out.plan.must = <<Clause(sechenie, "gte", IntV(2), Some(mm2))>> )
  => /\ out.plan.must_not = <<Clause(material, "eq", StrV(PVH), None)>>
          => (out.status = "ok" /\ out.matched)
     /\ out.plan.must_not = <<Clause(material, "eq", StrV(med), None)>>
          => (out.status = "ok" /\ ~out.matched)

\* C4: the decision of a run that comes to one is: every must clause is
\* true and every must_not clause is false under match_pred; the should
\* clauses have no part in it; a plan with no must and no must_not clause
\* matches.
C4_PlanFormula ==
  (out.op = "main" /\ out.status = "ok")
  => /\ out.matched <=>
          /\ \A i \in 1..Len(out.plan.must) :
               match_pred(occs, out.plan.must[i], out.cv) = "True"
          /\ \A i \in 1..Len(out.plan.must_not) :
               match_pred(occs, out.plan.must_not[i], out.cv) = "False"
     /\ (out.plan.must = <<>> /\ out.plan.must_not = <<>>) => out.matched

\* a plan that matches though its should clause is false for the item
C4_Witness ==
  /\ out.op = "main"
  /\ out.status = "ok"
  /\ out.matched
  /\ out.plan.must # <<>>
  /\ out.plan.must_not # <<>>
  /\ out.plan.should # <<>>
  /\ match_pred(occs, out.plan.should[1], out.cv) = "False"

\* the indices of the saved filters whose plan matches the item start stored
MatchingIndices ==
  {i \in 1..Len(filters) : PlanMatches(occs, filters[i].plan, out.cv) = "True"}

\* C6: when start has tried every filter and some match, the filter it
\* assigns is the first matching one in storage order.
C6_EarliestMatching ==
  (out.op = "start" /\ out.status = "ok" /\ MatchingIndices # {})
  => /\ out.score = 1
     /\ out.best = Some(filters[CHOOSE i \in MatchingIndices :
                                  \A j \in MatchingIndices : i <= j])

\* three filters: the first does not match, the second and the third do
C6_Witness ==
  /\ out.op = "start"
  /\ out.status = "ok"
  /\ Len(filters) = 3
  /\ MatchingIndices = {2, 3}
  /\ out.best = Some(filters[2])

\* C7: classify_products lists a saved filter for the item exactly when the
\* filter's plan matches the item under the must / must_not decision made
\* with match_pred (for an item that has occurrences and the plans on which
\* that decision raises nothing).
C7_SameDecision ==
  (out.op = "classify_products" /\ out.status = "ok" /\ occs # <<>>)
  => \A i \in 1..Len(filters) :
       \A cv \in ConvInputs(occs, AllClauses(<<filters[i]>>)) :
         PlanMatches(occs, filters[i].plan, cv) # "Raise"
         => (InSeq(filters[i].filter_id, out.matching)
               <=> PlanMatches(occs, filters[i].plan, cv) = "True")

(***************************************************************************)
(* Properties of the resolver: threshold, merge, arbitration, examples     *)
(***************************************************************************)
\* the similarity is the threshold / is less than the threshold
ExactlyThreshold(x) ==
  /\ x.num >= 0
  /\ SIM_THRESHOLD_DEN * SIM_THRESHOLD_DEN * x.num * x.num
       = SIM_THRESHOLD_NUM * SIM_THRESHOLD_NUM * x.den2

BelowThreshold(x) ==
  \/ x.num < 0
  \/ SIM_THRESHOLD_DEN * SIM_THRESHOLD_DEN * x.num * x.num
       < SIM_THRESHOLD_NUM * SIM_THRESHOLD_NUM * x.den2

\* the indices holding the greatest of the similarities
BestIndices(sims) ==
  {i \in 1..Len(sims) : \A j \in 1..Len(sims) : ~CosLess(sims[i], sims[j])}

ArbiterPaths ==
  {"arbiter_error", "int_error", "index_error", "arbiter_merge", "arbiter_new"}

\* C11: on a non-empty store, a call whose best similarity is the threshold
\* itself merges into a best node without asking the arbiter; a call whose
\* best similarity is below the threshold asks the arbiter and does not
\* merge by the threshold.
C11_ThresholdBoundary ==
  [][ (attr_nodes # <<>> /\ last'.path # "embed_error")
      => \A sims \in {Sims(attr_nodes, embed(last'.label))} :
           \A best \in {BestIndices(sims)} :
             \A i \in best :
               /\ ExactlyThreshold(sims[i])
                    => /\ last'.path = "threshold"
                       /\ ~last'.asked
                       /\ last'.op = "update"
                       /\ last'.ret \in {attr_nodes[k].attr_id : k \in best}
               /\ BelowThreshold(sims[i])
                    => /\ last'.asked
                       /\ last'.path \in ArbiterPaths ]_vars

\* a node created for a label embedded as (3,4,5), then a label embedded as
\* (0,1,7), at cosine 0.78 exactly, merged into it by the threshold
C11_Witness ==
  /\ ncalls = 2
  /\ Len(attr_nodes) = 1
  /\ emb[attr_nodes[1].label] = <<3, 4, 5>>
  /\ emb[last.label] = <<0, 1, 7>>
  /\ last.path = "threshold"
  /\ last.ret = 1
  /\ attr_nodes[1].examples = <<attr_nodes[1].label, last.label>>

\* C12: a call that merges (by the threshold or on the arbiter's word)
\* leaves in the node it returns the elementwise average (C + E) / 2 of the
\* centroid C stored before and the embedding E of its label, whatever was
\* merged before; two merges in a row therefore leave (((C+E1)/2)+E2)/2.
C12_MergeFormula ==
  [][ last'.op = "update"
      => \A k \in 1..Len(attr_nodes) :
           attr_nodes[k].attr_id = last'.ret
           => /\ Len(attr_nodes'[k].centroid) = Len(attr_nodes[k].centroid)
              /\ \A i \in 1..Len(attr_nodes[k].centroid) :
                   2 * attr_nodes'[k].centroid[i]
                     = attr_nodes[k].centroid[i] + embed(last'.label)[i] ]_vars

\* one node, created with embedding C and merged into twice, with E1 # C
\* and then E2: its centroid is (((C+E1)/2)+E2)/2 = (C + E1 + 2 E2) / 4
C12_Witness ==
  /\ ncalls = 3
  /\ Len(attr_nodes) = 1
  /\ last.op = "update"
  /\ last.prev_path \in {"threshold", "arbiter_merge"}
  /\ emb[last.prev_label] # emb[attr_nodes[1].label]
  /\ emb[last.label] # emb[last.prev_label]
  /\ ~IsZero(emb[attr_nodes[1].label])
  /\ ~IsZero(emb[last.prev_label])
  /\ ~IsZero(emb[last.label])
  /\ \A i \in 1..Len(attr_nodes[1].centroid) :
       4 * attr_nodes[1].centroid[i]
         = embed(attr_nodes[1].label)[i] + embed(last.prev_label)[i]
             + 2 * embed(last.label)[i]

\* C13: a node created because the arbiter answered -1 has the embedding the
\* call computed for its label as centroid and the label alone as examples;
\* every call, on every path, asks for one embedding.
C13_ArbiterNewNode ==
  /\ last.status # "none" => last.embed_calls = 1
  /\ last.path = "arbiter_new"
       => /\ last.status = "ok"
          /\ last.ret = Len(attr_nodes)
          /\ attr_nodes[last.ret].label = last.label
          /\ attr_nodes[last.ret].centroid = embed(last.label)
          /\ attr_nodes[last.ret].examples = <<last.label>>

\* the arbiter, shown two nodes, answers -1 and a third node is created
C13_Witness ==
  /\ last.path = "arbiter_new"
  /\ last.reply = [kind |-> "index", best_index |-> -1]
  /\ Len(last.order) = 2
  /\ Len(attr_nodes) = 3
  /\ ~IsZero(emb[last.label])

\* C14: the list shown to the arbiter holds min(TOPK_ATTR, number of nodes)
\* nodes, none less similar than a node left out, in descending order of
\* similarity and, among equally similar nodes, in ascending order of node
\* index; an index the arbiter returns within the list is resolved to the
\* node at that position.
C14_CandidateOrder ==
  [][ last'.asked
      => \A sims \in {Sims(attr_nodes, embed(last'.label))} :
           \A o \in {last'.order} :
             /\ Len(o) = Min(TOPK_ATTR, Len(attr_nodes))
             /\ \A i, j \in 1..Len(o) : i < j => o[i] # o[j]
             /\ \A i \in 1..Len(o) : \A k \in 1..Len(attr_nodes) :
                  (\A j \in 1..Len(o) : o[j] # k)
                  => ~CosLess(sims[o[i]], sims[k])
             /\ \A i, j \in 1..Len(o) :
                  i < j => /\ ~CosLess(sims[o[i]], sims[o[j]])
                           /\ ~CosLess(sims[o[j]], sims[o[i]]) => o[i] < o[j]
             /\ last'.path = "arbiter_merge"
                  => last'.ret
                       = attr_nodes[o[last'.reply.best_index + 1]].attr_id ]_vars

NoDuplicates(seq) == \A i, j \in 1..Len(seq) : i # j => seq[i] # seq[j]

\* C15: after every call each node's examples are without duplicates and
\* start with the node's label; the examples of an existing node are left
\* as they were or get the call's label appended at the end, and that only
\* by a merge into this node of a label they did not hold; a new node's
\* examples are the call's label alone.
C15_ExamplesOrderedSet ==
  [][ \A k \in 1..Len(attr_nodes') :
        /\ NoDuplicates(attr_nodes'[k].examples)
        /\ attr_nodes'[k].examples # <<>>
        /\ attr_nodes'[k].examples[1] = attr_nodes'[k].label
        /\ k > Len(attr_nodes) => attr_nodes'[k].examples = <<last'.label>>
        /\ k <= Len(attr_nodes)
             => \/ attr_nodes'[k].examples = attr_nodes[k].examples
                \/ /\ attr_nodes'[k].examples
                        = Append(attr_nodes[k].examples, last'.label)
                   /\ ~InSeq(last'.label, attr_nodes[k].examples)
                   /\ last'.op = "update"
                   /\ last'.ret = attr_nodes[k].attr_id ]_vars

\* a node that holds two labels, the first of them merged into it again
C15_Witness ==
  /\ ncalls = 3
  /\ last.op = "update"
  /\ Len(attr_nodes[last.ret].examples) = 2
  /\ attr_nodes[last.ret].examples[1] = last.label
  /\ last.prev_label # last.label
  /\ last.prev_ret = last.ret

====
